---- MODULE Spec2Model ----
(***************************************************************************)
(* Model of webplayer.py, the Flask backend of the Homarr Navidrome web    *)
(* player: static handlers, the cover-art and audio proxies, and the two   *)
(* query handlers (random list, search) in front of a Subsonic upstream.   *)
(*                                                                         *)
(* One inbound request is handled at a time: the handlers share no mutable *)
(* state (the configuration is read once at import), so a handler's result *)
(* depends only on the configuration, its request and what the upstream    *)
(* answers.  The upstream is the environment: its answer to the one        *)
(* requests.get call of a handler is drawn from UpstreamProxyAnswers or    *)
(* UpstreamQueryAnswers.                                                    *)
(*                                                                         *)
(* Text that the code inspects character by character (the query that is   *)
(* stripped, the numbers that int() parses) is a sequence of one-character *)
(* strings; other text is a string.                                        *)
(***************************************************************************)
EXTENDS Integers, Sequences, FiniteSets, TLC

VARIABLES
    SUBSONIC_USER,      \* webplayer.py:41, read once at import
    SUBSONIC_PASSWORD,  \* webplayer.py:42-46, read once at import
    index_present,      \* whether BASE_DIR/index.html exists
    pc,                 \* "idle": waiting for a request; "done": a handler has returned
    request,            \* the inbound request being handled
    sent,               \* the upstream requests issued for it, in order
    upstream,           \* what the upstream answered to it
    response,           \* the handler's response to the client
    auths               \* every dict subsonic_auth() has returned in this process

vars == <<SUBSONIC_USER, SUBSONIC_PASSWORD, index_present, pc, request, sent,
          upstream, response, auths>>

-----------------------------------------------------------------------------
(* Bounds of the model *)

\* subsonic_auth() is called at most MaxBuilds times in a run
MaxBuilds == 2
\* an upstream song list holds at most MaxSongs entries
MaxSongs == 2

-----------------------------------------------------------------------------
(* Configuration, webplayer.py:31-50 *)

NAVIDROME_URL == "http://127.0.0.1:4533"
SUBSONIC_VERSION == "1.16.1"
SUBSONIC_CLIENT == "homarr-webplayer"
SUBSONIC_FORMAT == "json"

\* what the environment may hold for the two credentials
UserValues == {"", "alice"}
PasswordValues == {"", "pw"}

-----------------------------------------------------------------------------
(* Dicts and optional values *)

EmptyDict == [x \in {} |-> ""]

\* Python's a | b on dicts: the right operand wins
Merge(left, right) ==
    [x \in (DOMAIN left) \cup (DOMAIN right) |->
        IF x \in DOMAIN right THEN right[x] ELSE left[x]]

\* an optional input: a parameter or header that may be absent
Absent == [present |-> FALSE, value |-> ""]
Given(x) == [present |-> TRUE, value |-> x]
AbsentText == [present |-> FALSE, value |-> <<>>]

\* the dict holding key x exactly when the option is present
Entry(x, opt) == IF opt.present THEN [y \in {x} |-> opt.value] ELSE EmptyDict

-----------------------------------------------------------------------------
(* JSON values: a kind k and, by kind, a string str, a number n, a boolean  *)
(* b, an array a or an object o (the other fields are blank)                *)

J(k, str, n, b, a, o) == [k |-> k, str |-> str, n |-> n, b |-> b, a |-> a, o |-> o]

JNull == J("null", "", 0, FALSE, <<>>, EmptyDict)
JStr(text) == J("str", text, 0, FALSE, <<>>, EmptyDict)
JNum(n) == J("num", "", n, FALSE, <<>>, EmptyDict)
JBool(b) == J("bool", "", 0, b, <<>>, EmptyDict)
JList(seq) == J("list", "", 0, FALSE, seq, EmptyDict)
JObj(fields) == J("obj", "", 0, FALSE, <<>>, fields)
\* a body that is not JSON at all
NotJson == J("invalid", "", 0, FALSE, <<>>, EmptyDict)

\* Python truth value of a decoded JSON value
Truthy(j) ==
    CASE j.k = "null" -> FALSE
      [] j.k = "str" -> j.str # ""
      [] j.k = "num" -> j.n # 0
      [] j.k = "bool" -> j.b
      [] j.k = "list" -> Len(j.a) > 0
      [] j.k = "obj" -> DOMAIN j.o # {}
      [] OTHER -> FALSE

\* an object field that is absent
AbsentField == [present |-> FALSE, value |-> JNull]

\* dict.get(key, default) on a decoded JSON object
JGet(j, key, default) == IF key \in DOMAIN j.o THEN j.o[key] ELSE default

\* the result of a step that may raise
Ok(x) == [ok |-> TRUE, val |-> x]
Raised == [ok |-> FALSE, val |-> JNull]

-----------------------------------------------------------------------------
(* md5_hex and subsonic_auth, webplayer.py:61-82 *)

\* hashlib.md5(s).hexdigest(): an uninterpreted one-way function of its input
md5_hex(text) == "md5(" \o text \o ")"

HexDigits == <<"0", "1", "2", "3", "4", "5", "6", "7",
               "8", "9", "a", "b", "c", "d", "e", "f">>

\* secrets.token_hex: the hex encoding of the random bytes drawn (one byte here)
token_hex(b) == HexDigits[(b \div 16) + 1] \o HexDigits[(b % 16) + 1]

\* the byte values the random source may give
SaltBytes == {0, 171}

\* a check that forgets the password
CredentialsSetUserOnly == SUBSONIC_USER # ""

\* line 69: the credentials check that aborts with 500
CredentialsSet == SUBSONIC_USER # "" /\ SUBSONIC_PASSWORD # ""

\* a build whose token leaves the salt out of the hash
subsonic_auth_unsalted(b) ==
    [u |-> SUBSONIC_USER, t |-> md5_hex(SUBSONIC_PASSWORD), s |-> token_hex(b),
     v |-> SUBSONIC_VERSION, c |-> SUBSONIC_CLIENT, f |-> SUBSONIC_FORMAT]

\* lines 73-82, with the random byte drawn for the salt
subsonic_auth(b) ==
    LET salt == token_hex(b)
        token == md5_hex(SUBSONIC_PASSWORD \o salt)
    IN  [u |-> SUBSONIC_USER, t |-> token, s |-> salt,
         v |-> SUBSONIC_VERSION, c |-> SUBSONIC_CLIENT, f |-> SUBSONIC_FORMAT]

-----------------------------------------------------------------------------
(* Requests, upstream answers and responses *)

\* a response to the client
Reply(status, headers, body) == [status |-> status, headers |-> headers, body |-> body]

\* what a requests.get call comes back with: a response, or an exception
\* (connection refused, timeout) when ok is FALSE
Answer(status, headers, body) ==
    [ok |-> TRUE, status |-> status, headers |-> headers, body |-> body, called |-> TRUE]
TransportError ==
    [ok |-> FALSE, status |-> 0, headers |-> EmptyDict, body |-> JNull, called |-> TRUE]
NoUpstream ==
    [ok |-> FALSE, status |-> 0, headers |-> EmptyDict, body |-> JNull, called |-> FALSE]

\* an inbound request: its headers, route, path parameter and query string
Request(route, id, args, headers) ==
    [headers |-> headers, route |-> route, id |-> id, args |-> args]

NoRequest == Request("", "", EmptyDict, EmptyDict)

\* a requests.get call
Get(url, params, headers) == [headers |-> headers, url |-> url, params |-> params]

Bytes == J("bytes", "", 0, FALSE, <<>>, EmptyDict)
Html == J("html", "", 0, FALSE, <<>>, EmptyDict)

NoResponse == Reply(0, EmptyDict, JNull)

\* flask.abort(code), and an exception that leaves the handler (code 500)
Abort(code) == Reply(code, EmptyDict, Html)

\* flask.jsonify(**fields), status
Jsonify(fields, status) ==
    Reply(status, [x \in {"Content-Type"} |-> "application/json"], JObj(fields))

\* jsonify(success=False, error=message), status
JsonError(message, status) ==
    Jsonify([success |-> JBool(FALSE), error |-> JStr(message)], status)

\* dict.setdefault on the response headers
SetDefault(h, name, value) ==
    IF name \in DOMAIN h THEN h ELSE Merge(h, [x \in {name} |-> value])

\* the loops of lines 124-134 and 182-185: copy the listed headers that the
\* upstream sent with a non-empty value
RECURSIVE CopyHeaders(_, _, _)
CopyHeaders(names, from, to) ==
    IF names = <<>> THEN to
    ELSE LET h == Head(names)
             copied == IF h \in DOMAIN from /\ from[h] # ""
                       THEN Merge(to, [x \in {h} |-> from[h]])
                       ELSE to
         IN  CopyHeaders(Tail(names), from, copied)

-----------------------------------------------------------------------------
(* Static handlers, webplayer.py:88-101 *)

\* send_from_directory(BASE_DIR, "index.html")
send_index == IF index_present THEN Reply(200, EmptyDict, Html) ELSE Abort(404)

\* what a handler did: the upstream requests it issued, the answer it got, its
\* response, and the auth dicts it built
Outcome(out, up, resp, built) ==
    [sent |-> out, upstream |-> up, response |-> resp, built |-> built]

\* a handler that issues no upstream request
Local(resp) == Outcome(<<>>, NoUpstream, resp, <<>>)

Handled(req, o) ==
    /\ pc = "idle"
    /\ pc' = "done"
    /\ request' = req
    /\ sent' = o.sent
    /\ upstream' = o.upstream
    /\ response' = o.response
    /\ auths' = auths \o o.built
    /\ UNCHANGED <<SUBSONIC_USER, SUBSONIC_PASSWORD, index_present>>

\* the random bytes a handler may draw and the answers it may get: one
\* placeholder each when it returns before drawing, before calling
Drawn(builds) == IF builds THEN SaltBytes ELSE {0}
Answered(calls, answers) == IF calls THEN answers ELSE {NoUpstream}

\* the cap on subsonic_auth() calls: a handler that would build is not started
\* once MaxBuilds dicts have been built
MayBuild == CredentialsSet => Len(auths) < MaxBuilds

index ==
    Handled(Request("/", "", EmptyDict, EmptyDict), Local(send_index))

index_html ==
    Handled(Request("/index.html", "", EmptyDict, EmptyDict), Local(send_index))

ping ==
    Handled(Request("/ping", "", EmptyDict, EmptyDict),
            Local(Jsonify([ok |-> JBool(TRUE)], 200)))

-----------------------------------------------------------------------------
(* Cover art and audio proxies, webplayer.py:107-190 *)

\* the ids a client may ask for
Ids == {"al-1", "tr-2"}

\* the Range header of a client: none, an empty one, a byte range
RangeHeaders == {Absent, Given(""), Given("bytes=5-")}

\* what an upstream may answer to a proxied GET
UpstreamStatuses == {200, 206, 404}
UpstreamHeaders ==
    { Merge(Merge(Entry("Content-Type", ct), Entry("Content-Range", cr)),
            Merge(Entry("Accept-Ranges", ar), [x \in {"Set-Cookie"} |-> "sid=1"])) :
        ct \in {Absent, Given(""), Given("audio/flac")},
        cr \in {Absent, Given(""), Given("bytes 5-9/10")},
        ar \in {Absent, Given("none")} }
UpstreamProxyAnswers ==
    {TransportError} \cup
    { Answer(st, h, Bytes) : st \in UpstreamStatuses, h \in UpstreamHeaders }

\* a response built without the upstream status
ResponseDefaultStatus(status) ==
    Reply(200, [x \in {"Content-Type"} |-> "text/html; charset=utf-8"], Bytes)

\* flask.Response(gen(), status=...): werkzeug sets the default Content-Type
\* when neither mimetype nor content_type is given
Response(status) ==
    Reply(status, [x \in {"Content-Type"} |-> "text/html; charset=utf-8"], Bytes)

\* lines 124-131
CoverPassthrough ==
    <<"Content-Type", "Content-Length", "Cache-Control", "ETag", "Last-Modified",
      "Accept-Ranges">>

\* lines 172-181
StreamPassthrough ==
    <<"Content-Type", "Content-Length", "Accept-Ranges", "Content-Range",
      "Cache-Control", "ETag", "Last-Modified", "Content-Disposition">>

\* lines 123-138
cover_response(up) ==
    LET resp == Response(up.status)
        copied == CopyHeaders(CoverPassthrough, up.headers, resp.headers)
    IN  Reply(resp.status, SetDefault(copied, "Content-Type", "image/jpeg"), resp.body)

\* lines 112-138: b is the salt byte drawn, up the upstream's answer
cover_handler(req, b, up) ==
    IF ~CredentialsSet THEN Local(Abort(500))
    ELSE LET auth == subsonic_auth(b)
             params == Merge(auth, [id |-> req.id])
             call == Get(NAVIDROME_URL \o "/rest/getCoverArt", params, EmptyDict)
         IN  IF ~up.ok THEN Outcome(<<call>>, up, Abort(500), <<auth>>)
             ELSE Outcome(<<call>>, up, cover_response(up), <<auth>>)

api_cover ==
    /\ MayBuild
    /\ \E id \in Ids, b \in Drawn(CredentialsSet),
          up \in Answered(CredentialsSet, UpstreamProxyAnswers) :
         LET req == Request("/api/cover", id, EmptyDict, EmptyDict)
         IN  Handled(req, cover_handler(req, b, up))

\* an upstream call that forgets the Range header
stream_headers_none(req) == EmptyDict

\* lines 152-156: the headers of the upstream call
stream_headers(req) ==
    IF "Range" \in DOMAIN req.headers /\ req.headers["Range"] # ""
    THEN [x \in {"Range"} |-> req.headers["Range"]]
    ELSE EmptyDict

\* lines 171-190
stream_response(up) ==
    LET resp == Response(up.status)
        copied == CopyHeaders(StreamPassthrough, up.headers, resp.headers)
    IN  Reply(resp.status,
              SetDefault(SetDefault(copied, "Accept-Ranges", "bytes"),
                         "Content-Type", "audio/mpeg"),
              resp.body)

\* lines 150-190
stream_handler(req, b, up) ==
    IF ~CredentialsSet THEN Local(Abort(500))
    ELSE LET auth == subsonic_auth(b)
             params == Merge(auth, [id |-> req.id])
             call == Get(NAVIDROME_URL \o "/rest/download", params, stream_headers(req))
         IN  IF ~up.ok THEN Outcome(<<call>>, up, Abort(500), <<auth>>)
             ELSE Outcome(<<call>>, up, stream_response(up), <<auth>>)

api_stream ==
    /\ MayBuild
    /\ \E id \in Ids, rng \in RangeHeaders, b \in Drawn(CredentialsSet),
          up \in Answered(CredentialsSet, UpstreamProxyAnswers) :
         LET req == Request("/api/stream", id, EmptyDict, Entry("Range", rng))
         IN  Handled(req, stream_handler(req, b, up))

-----------------------------------------------------------------------------
(* Text helpers: str.strip() and int() on a sequence of characters *)

Whitespace == {" "}

RECURSIVE lstrip(_)
lstrip(cs) ==
    IF cs # <<>> /\ Head(cs) \in Whitespace THEN lstrip(Tail(cs)) ELSE cs

RECURSIVE rstrip(_)
rstrip(cs) ==
    IF cs # <<>> /\ cs[Len(cs)] \in Whitespace
    THEN rstrip(SubSeq(cs, 1, Len(cs) - 1))
    ELSE cs

\* str.strip()
strip(cs) == rstrip(lstrip(cs))

DigitValue(c) ==
    CASE c = "0" -> 0 [] c = "1" -> 1 [] c = "2" -> 2 [] c = "3" -> 3
      [] c = "4" -> 4 [] c = "5" -> 5 [] c = "6" -> 6 [] c = "7" -> 7
      [] c = "8" -> 8 [] c = "9" -> 9
Digits == {"0", "1", "2", "3", "4", "5", "6", "7", "8", "9"}

RECURSIVE Decimal(_, _)
Decimal(cs, acc) ==
    IF cs = <<>> THEN acc ELSE Decimal(Tail(cs), 10 * acc + DigitValue(Head(cs)))

\* int(text): surrounding whitespace, an optional sign, decimal digits;
\* anything else raises ValueError (ok is FALSE)
int(cs) ==
    LET t == strip(cs)
        signed == t # <<>> /\ Head(t) \in {"+", "-"}
        ds == IF signed THEN Tail(t) ELSE t
    IN  IF ds # <<>> /\ \A i \in 1..Len(ds) : ds[i] \in Digits
        THEN [ok |-> TRUE,
              val |-> IF signed /\ Head(t) = "-" THEN -Decimal(ds, 0) ELSE Decimal(ds, 0)]
        ELSE [ok |-> FALSE, val |-> 0]

-----------------------------------------------------------------------------
(* What an upstream may answer to a query *)

EmptyObj == JObj(EmptyDict)
Field(name, value) == [x \in {name} |-> value]

\* song objects: each of the four fields absent, null, or set
SongObjects ==
    { JObj(Merge(Merge(Entry("id", id), Entry("title", ti)),
                 Merge(Entry("artist", ar), Entry("coverArt", co)))) :
        id \in {AbsentField, Given(JStr("1"))},
        ti \in {AbsentField, Given(JNull), Given(JStr("T"))},
        ar \in {AbsentField, Given(JNull), Given(JStr("A"))},
        co \in {AbsentField, Given(JNull), Given(JStr("")), Given(JStr("c"))} }

SongA ==
    JObj([id |-> JStr("1"), title |-> JStr("T"), artist |-> JStr("A"),
          coverArt |-> JStr("c")])
SongB == JObj([id |-> JStr("2")])

\* the entries of a song list: null, an empty object, a stray string, songs
ListEntries == {JNull, EmptyObj, JStr("junk"), SongA, SongB}

SongLists ==
    UNION { [1..n -> ListEntries] : n \in 0..MaxSongs }

\* what may stand under "song"
SongValues ==
    {JNull, JStr("junk"), JNum(7)} \cup SongObjects \cup {EmptyObj}
        \cup { JList(l) : l \in SongLists }

\* what may stand under "randomSongs" / "searchResult3"
ResultValues ==
    {JNull, JList(<<>>), JStr("junk"), EmptyObj}
        \cup { JObj(Field("song", sv)) : sv \in SongValues }

\* a Subsonic error envelope: status failed, an error, no song list
FailedEnvelope ==
    JObj([status |-> JStr("failed"),
          error |-> JObj([code |-> JNum(40),
                          message |-> JStr("Wrong username or password")])])

\* what may stand under "subsonic-response", the results being under `key`
EnvelopeValues(key) ==
    {JNull, JList(<<>>), JStr("junk"), FailedEnvelope, JObj([status |-> JStr("ok")])}
        \cup { JObj(Merge([status |-> JStr("ok")], Field(key, rv))) :
                 rv \in ResultValues }

UpstreamBodies(key) ==
    {NotJson, JNull, JList(<<>>), JStr("junk"), EmptyObj}
        \cup { JObj(Field("subsonic-response", ev)) : ev \in EnvelopeValues(key) }

\* the bodies that come with an HTTP error status: an error page, an error
\* envelope, an envelope with no song
ErrorBodies == {NotJson, JObj(Field("subsonic-response", FailedEnvelope)), EmptyObj}

UpstreamQueryAnswers(key) ==
    {TransportError}
        \cup { Answer(200, EmptyDict, body) : body \in UpstreamBodies(key) }
        \cup { Answer(500, EmptyDict, body) : body \in ErrorBodies }

\* the answers to getRandomSongs and to search3
RandomSongsAnswers == UpstreamQueryAnswers("randomSongs")
Search3Answers == UpstreamQueryAnswers("searchResult3")

-----------------------------------------------------------------------------
(* Random list, webplayer.py:196-232 *)

\* lines 209-212 and 255-258: r.json().get("subsonic-response", {}); raises
\* when the body is not JSON or not an object
envelope(up) ==
    IF up.body.k # "obj" THEN Raised
    ELSE Ok(JGet(up.body, "subsonic-response", EmptyObj))

\* `x or default`
OrElse(x, default) == IF Truthy(x) THEN x ELSE default

\* line 214: js.get("randomSongs", {}).get("song", []) or []
random_songs(js) ==
    IF js.k # "obj" THEN Raised
    ELSE LET rs == JGet(js, "randomSongs", EmptyObj)
         IN  IF rs.k # "obj" THEN Raised
             ELSE Ok(OrElse(JGet(rs, "song", JList(<<>>)), JList(<<>>)))

\* a single object left as it is
as_list_unchanged(songs) == songs

\* lines 216-217 and 262-263: a single object becomes a one-element list
as_list(songs) == IF songs.k = "obj" THEN JList(<<songs>>) ELSE songs

\* lines 224-229
random_entry(s) ==
    JObj([id |-> JGet(s, "id", JNull),
          title |-> JGet(s, "title", JStr("Unknown")),
          artist |-> JGet(s, "artist", JStr("Unknown")),
          coverArt |-> OrElse(JGet(s, "coverArt", JNull), JGet(s, "id", JNull))])

\* lines 219-230: the loop over a list; s.get raises on a true entry that is
\* no object
RECURSIVE random_loop(_)
random_loop(seq) ==
    IF seq = <<>> THEN Ok(<<>>)
    ELSE LET s == Head(seq)
             rest == random_loop(Tail(seq))
         IN  IF ~Truthy(s) THEN rest
             ELSE IF s.k # "obj" \/ ~rest.ok THEN Raised
             ELSE Ok(<<random_entry(s)>> \o rest.val)

\* lines 219-230: iterating a string reaches s.get on a character, iterating a
\* number or a boolean raises TypeError
random_payload(songs) ==
    IF songs.k # "list" THEN Raised ELSE random_loop(songs.a)

\* lines 202-205
random_size(req) ==
    IF "size" \in DOMAIN req.args
    THEN LET n == int(req.args["size"]) IN IF n.ok THEN n.val ELSE 30
    ELSE 30

\* lines 209-232: the response to an upstream answer
random_response(up) ==
    LET js == envelope(up)
    IN  IF ~js.ok
        THEN JsonError("Upstream invalid JSON", 502)
        ELSE LET songs == random_songs(js.val)
             IN  IF ~songs.ok THEN Abort(500)
                 ELSE LET payload == random_payload(as_list(songs.val))
                      IN  IF ~payload.ok THEN Abort(500)
                          ELSE Jsonify([success |-> JBool(TRUE),
                                        songs |-> JList(payload.val)], 200)

\* a handler that asks again when the upstream answers an error status
random_list_handler_retry(req, b, up) ==
    IF ~CredentialsSet THEN Local(Abort(500))
    ELSE LET auth == subsonic_auth(b)
             params == Merge(auth, [size |-> random_size(req)])
             call == Get(NAVIDROME_URL \o "/rest/getRandomSongs", params, EmptyDict)
         IN  IF ~up.ok THEN Outcome(<<call>>, up, Abort(500), <<auth>>)
             ELSE IF up.status >= 500
             THEN Outcome(<<call, call>>, up, random_response(up), <<auth>>)
             ELSE Outcome(<<call>>, up, random_response(up), <<auth>>)

\* lines 202-232
random_list_handler(req, b, up) ==
    IF ~CredentialsSet THEN Local(Abort(500))
    ELSE LET auth == subsonic_auth(b)
             params == Merge(auth, [size |-> random_size(req)])
             call == Get(NAVIDROME_URL \o "/rest/getRandomSongs", params, EmptyDict)
         IN  IF ~up.ok THEN Outcome(<<call>>, up, Abort(500), <<auth>>)
             ELSE Outcome(<<call>>, up, random_response(up), <<auth>>)

\* the size parameter of a client: none, a number, text that is no number
SizeArgs == {AbsentText, Given(<<" ", "5">>), Given(<<"x">>)}

api_random_list ==
    /\ MayBuild
    /\ \E size \in SizeArgs, b \in Drawn(CredentialsSet),
          up \in Answered(CredentialsSet, RandomSongsAnswers) :
         LET req == Request("/api/random/list", "", Entry("size", size), EmptyDict)
         IN  Handled(req, random_list_handler(req, b, up))

-----------------------------------------------------------------------------
(* Search, webplayer.py:238-278 *)

\* a query that is not stripped
search_query_unstripped(req) ==
    IF "query" \in DOMAIN req.args THEN req.args["query"] ELSE <<>>

\* line 244: (request.args.get("query") or "").strip()
search_query(req) ==
    IF "query" \in DOMAIN req.args THEN strip(req.args["query"]) ELSE <<>>

\* line 250: int(request.args.get("songCount", 25))
search_song_count(req) ==
    IF "songCount" \in DOMAIN req.args
    THEN int(req.args["songCount"])
    ELSE [ok |-> TRUE, val |-> 25]

\* lines 260-261: js.get("searchResult3", {}) or {}, then .get("song", []) or []
search_songs(js) ==
    IF js.k # "obj" THEN Raised
    ELSE LET res == OrElse(JGet(js, "searchResult3", EmptyObj), EmptyObj)
         IN  IF res.k # "obj" THEN Raised
             ELSE Ok(OrElse(JGet(res, "song", JList(<<>>)), JList(<<>>)))

\* a summary whose coverArt does not fall back to the id
search_entry_no_fallback(s) ==
    JObj([id |-> JGet(s, "id", JNull),
          title |-> JGet(s, "title", JStr("Unknown")),
          artist |-> JGet(s, "artist", JStr("Unknown")),
          coverArt |-> JGet(s, "coverArt", JNull)])

\* lines 270-275
search_entry(s) ==
    JObj([id |-> JGet(s, "id", JNull),
          title |-> JGet(s, "title", JStr("Unknown")),
          artist |-> JGet(s, "artist", JStr("Unknown")),
          coverArt |-> OrElse(JGet(s, "coverArt", JNull), JGet(s, "id", JNull))])

\* lines 265-276
RECURSIVE search_loop(_)
search_loop(seq) ==
    IF seq = <<>> THEN Ok(<<>>)
    ELSE LET s == Head(seq)
             rest == search_loop(Tail(seq))
         IN  IF ~Truthy(s) THEN rest
             ELSE IF s.k # "obj" \/ ~rest.ok THEN Raised
             ELSE Ok(<<search_entry(s)>> \o rest.val)

search_results(songs) ==
    IF songs.k # "list" THEN Raised ELSE search_loop(songs.a)

\* lines 255-278: the response to an upstream answer
search_response(up) ==
    LET js == envelope(up)
    IN  IF ~js.ok
        THEN JsonError("Upstream invalid JSON", 502)
        ELSE LET songs == search_songs(js.val)
             IN  IF ~songs.ok THEN Abort(500)
                 ELSE LET results == search_results(as_list(songs.val))
                      IN  IF ~results.ok THEN Abort(500)
                          ELSE Jsonify([success |-> JBool(TRUE),
                                        results |-> JList(results.val)], 200)

\* lines 244-278: subsonic_auth() is the left operand of |, so it runs (and may
\* abort) before int() parses songCount
search_handler(req, b, up) ==
    LET q == search_query(req)
    IN  IF q = <<>>
        THEN Local(JsonError("No query", 400))
        ELSE IF ~CredentialsSet THEN Local(Abort(500))
        ELSE LET auth == subsonic_auth(b)
                 count == search_song_count(req)
                 params == Merge(auth, [query |-> q, songCount |-> count.val,
                                        albumCount |-> 0, artistCount |-> 0])
                 call == Get(NAVIDROME_URL \o "/rest/search3", params, EmptyDict)
             IN  IF ~count.ok THEN Outcome(<<>>, NoUpstream, Abort(500), <<auth>>)
                 ELSE IF ~up.ok THEN Outcome(<<call>>, up, Abort(500), <<auth>>)
                 ELSE Outcome(<<call>>, up, search_response(up), <<auth>>)

\* the query of a client: none, empty, blank, a word, two padded words
QueryArgs ==
    {AbsentText, Given(<<>>), Given(<<" ">>), Given(<<"a">>),
     Given(<<" ", "a", " ", "b", " ">>)}

\* the songCount of a client: none, a number, text that is no number
SongCountArgs == {AbsentText, Given(<<"7">>), Given(<<"x">>)}

api_search ==
    /\ MayBuild
    /\ \E query \in QueryArgs, songCount \in SongCountArgs :
         LET req == Request("/api/search", "",
                            Merge(Entry("query", query), Entry("songCount", songCount)),
                            EmptyDict)
             builds == CredentialsSet /\ search_query(req) # <<>>
             calls == builds /\ search_song_count(req).ok
         IN  \E b \in Drawn(builds), up \in Answered(calls, Search3Answers) :
                 Handled(req, search_handler(req, b, up))

-----------------------------------------------------------------------------
(* The serving loop, webplayer.py:289: the response goes out and the next  *)
(* request is accepted                                                     *)

serve_next ==
    /\ pc = "done"
    /\ pc' = "idle"
    /\ request' = NoRequest
    /\ sent' = <<>>
    /\ upstream' = NoUpstream
    /\ response' = NoResponse
    /\ UNCHANGED <<SUBSONIC_USER, SUBSONIC_PASSWORD, index_present, auths>>

Init ==
    /\ SUBSONIC_USER \in UserValues
    /\ SUBSONIC_PASSWORD \in PasswordValues
    /\ index_present \in BOOLEAN
    /\ pc = "idle"
    /\ request = NoRequest
    /\ sent = <<>>
    /\ upstream = NoUpstream
    /\ response = NoResponse
    /\ auths = <<>>

Next ==
    \/ index
    \/ index_html
    \/ ping
    \/ api_cover
    \/ api_stream
    \/ api_random_list
    \/ api_search
    \/ serve_next

Spec == Init /\ [][Next]_vars

-----------------------------------------------------------------------------
(* Vocabulary of the properties *)

Done == pc = "done"
ProxyRoutes == {"/api/cover", "/api/stream"}
QueryRoutes == {"/api/random/list", "/api/search"}
StaticRoutes == {"/", "/index.html", "/ping"}
AuthRoutes == ProxyRoutes \cup QueryRoutes

\* the upstream call returned a response
UpstreamReturned(st) == upstream.called /\ upstream.ok /\ upstream.status = st

\* the text is empty or whitespace only
Blank(cs) == \A i \in 1..Len(cs) : cs[i] = " "

\* t is cs without its leading and trailing whitespace
IsTrimOf(t, cs) ==
    /\ \E i \in 0..Len(cs), j \in 0..Len(cs) :
          /\ i + j <= Len(cs)
          /\ t = SubSeq(cs, i + 1, Len(cs) - j)
          /\ \A n \in 1..i : cs[n] = " "
          /\ \A n \in (Len(cs) - j + 1)..Len(cs) : cs[n] = " "
    /\ t # <<>> => t[1] # " " /\ t[Len(t)] # " "

\* the text is an integer literal: optional sign and decimal digits, possibly
\* padded with whitespace
IsIntegerText(cs) ==
    \E t \in {SubSeq(cs, i, j) : i \in 1..(Len(cs) + 1), j \in 0..Len(cs)} :
        /\ IsTrimOf(t, cs)
        /\ LET ds == IF t # <<>> /\ t[1] \in {"+", "-"} THEN Tail(t) ELSE t
           IN  ds # <<>> /\ \A n \in 1..Len(ds) : ds[n] \in Digits

\* the query parameter of the request is missing, empty or blank
NoQuery == "query" \notin DOMAIN request.args \/ Blank(request.args["query"])

\* the songCount parameter of the request is missing or an integer literal
SongCountParses ==
    "songCount" \notin DOMAIN request.args \/ IsIntegerText(request.args["songCount"])

\* the JSON body of the response has success: true / success: false
Success ==
    /\ response.body.k = "obj"
    /\ "success" \in DOMAIN response.body.o
    /\ response.body.o["success"] = JBool(TRUE)
Failure ==
    /\ response.body.k = "obj"
    /\ "success" \in DOMAIN response.body.o
    /\ response.body.o["success"] = JBool(FALSE)

\* the member of the envelope that holds the songs, and the member of the
\* response that lists them
ResultKey == IF request.route = "/api/search" THEN "searchResult3" ELSE "randomSongs"
ListKey == IF request.route = "/api/search" THEN "results" ELSE "songs"

HasEnvelope ==
    /\ upstream.called /\ upstream.ok
    /\ upstream.body.k = "obj"
    /\ "subsonic-response" \in DOMAIN upstream.body.o
UpEnvelope == upstream.body.o["subsonic-response"]
HasResult ==
    HasEnvelope /\ UpEnvelope.k = "obj" /\ ResultKey \in DOMAIN UpEnvelope.o
UpResult == UpEnvelope.o[ResultKey]

\* the upstream value under "song", null when the member is absent
UpSong == IF "song" \in DOMAIN UpResult.o THEN UpResult.o["song"] ELSE JNull

\* a list entry is null or an object
SongOrNull(e) == e.k \in {"null", "obj"}

\* the envelope is well formed: an object holding an object under the result
\* key, whose "song" is absent, null, one object, or a list of objects and nulls
WellFormed ==
    /\ HasResult /\ UpResult.k = "obj"
    /\ UpSong.k \in {"null", "obj", "list"}
    /\ UpSong.k = "list" => \A i \in 1..Len(UpSong.a) : SongOrNull(UpSong.a[i])

\* the upstream songs as a list: a single object counts as a list of one
UpSongList ==
    CASE UpSong.k = "obj" -> <<UpSong>>
      [] UpSong.k = "list" -> UpSong.a
      [] OTHER -> <<>>

NonEmptyObject(e) == e.k = "obj" /\ DOMAIN e.o # {}

\* the entries that are neither null nor empty, in upstream order
UpKept == SelectSeq(UpSongList, NonEmptyObject)

\* the list of song summaries in the response
Listed == response.body.o[ListKey].a
ListsSongs ==
    /\ response.status = 200 /\ Success
    /\ ListKey \in DOMAIN response.body.o
    /\ response.body.o[ListKey].k = "list"

\* the value of a song's field, null when absent
FieldOr(song, name, default) ==
    IF name \in DOMAIN song.o THEN song.o[name] ELSE default

-----------------------------------------------------------------------------
(* C1: on the cover and stream proxies, whenever the upstream call returns  *)
(* a response, the status of the response sent to the client is the         *)
(* upstream status, error statuses included.                                *)
StatusPassthrough ==
    (Done /\ request.route \in ProxyRoutes /\ upstream.called /\ upstream.ok)
        => response.status = upstream.status

\* a cover request whose upstream answers 404 is answered 404
StatusPassthroughWitness ==
    /\ Done /\ request.route = "/api/cover"
    /\ UpstreamReturned(404) /\ response.status = 404

-----------------------------------------------------------------------------
-----------------------------------------------------------------------------
(* C3, as claimed: with an empty username or password, every handler that   *)
(* needs upstream auth answers 500 and issues no upstream request, for      *)
(* every request input.                                                     *)
MissingCredentials == SUBSONIC_USER = "" \/ SUBSONIC_PASSWORD = ""

FailFastAsClaimed ==
    (Done /\ MissingCredentials /\ request.route \in AuthRoutes) =>
        /\ response.status = 500
        /\ sent = <<>> /\ ~upstream.called

(* C3, amended: with an empty username or password no handler issues an     *)
(* upstream request or builds auth parameters; cover, stream, random list   *)
(* and search with a non-blank query answer 500, and search with a missing  *)
(* or blank query answers 400 (the query is checked first).                 *)
FailFast ==
    (Done /\ MissingCredentials /\ request.route \in AuthRoutes) =>
        /\ sent = <<>> /\ ~upstream.called /\ auths = <<>>
        /\ response.status =
              IF request.route = "/api/search" /\ NoQuery THEN 400 ELSE 500

\* a stream request under a missing password is answered 500 with no call
FailFastWitness ==
    /\ Done /\ SUBSONIC_USER # "" /\ SUBSONIC_PASSWORD = ""
    /\ request.route = "/api/stream"
    /\ response.status = 500 /\ sent = <<>>

-----------------------------------------------------------------------------
(* C4: on the query endpoints, an upstream body that is not the expected    *)
(* envelope (not JSON, JSON that is no object, a "subsonic-response" that   *)
(* is no object, a "randomSongs"/"searchResult3" that is null or no object) *)
(* is answered 502 with {success: false, error}.                            *)
Malformed ==
    /\ upstream.called /\ upstream.ok
    /\ \/ upstream.body.k # "obj"
       \/ HasEnvelope /\ UpEnvelope.k # "obj"
       \/ HasResult /\ UpResult.k # "obj"

BadGatewayOnMalformed ==
    (Done /\ request.route \in QueryRoutes /\ Malformed) =>
        /\ response.status = 502
        /\ Failure /\ "error" \in DOMAIN response.body.o

-----------------------------------------------------------------------------
(* C5: on the query endpoints an upstream failure (an HTTP error status, or *)
(* an envelope with status failed and no song list) is never answered 200   *)
(* with success: true.                                                      *)
UpstreamFailed ==
    /\ upstream.called /\ upstream.ok
    /\ \/ upstream.status >= 400
       \/ /\ HasEnvelope /\ UpEnvelope.k = "obj"
          /\ "status" \in DOMAIN UpEnvelope.o
          /\ UpEnvelope.o["status"] = JStr("failed")
          /\ ResultKey \notin DOMAIN UpEnvelope.o

FailureSurfaced ==
    (Done /\ request.route \in QueryRoutes /\ UpstreamFailed) =>
        ~(response.status = 200 /\ Success)

-----------------------------------------------------------------------------
(* C6, as claimed: /api/search with a missing, empty or blank query answers *)
(* 400 with {success: false, error: "No query"} and issues no upstream      *)
(* request; with a non-blank query it sends the trimmed query upstream with *)
(* albumCount and artistCount 0.  (Stated for a process whose credentials   *)
(* are set: without them no handler calls upstream, see C3.)                *)
NoQueryRejected ==
    /\ response.status = 400
    /\ Failure
    /\ DOMAIN response.body.o = {"success", "error"}
    /\ response.body.o["error"] = JStr("No query")
    /\ sent = <<>> /\ ~upstream.called

TrimmedQuerySent ==
    /\ Len(sent) = 1
    /\ IsTrimOf(sent[1].params["query"], request.args["query"])
    /\ sent[1].params["albumCount"] = 0
    /\ sent[1].params["artistCount"] = 0

SearchQueryAsClaimed ==
    (Done /\ request.route = "/api/search" /\ ~MissingCredentials) =>
        IF NoQuery THEN NoQueryRejected ELSE TrimmedQuerySent

(* C6, amended: a missing, empty or blank query is answered 400 with        *)
(* {success: false, error: "No query"} and no upstream request.  With a     *)
(* non-blank query, the credentials set and a songCount that is absent or   *)
(* an integer literal, one upstream request carries the trimmed query with  *)
(* albumCount and artistCount 0; with a non-blank query and the credentials *)
(* missing or a songCount that is no integer, the answer is 500 and no      *)
(* upstream request is issued.                                              *)
SearchQuery ==
    (Done /\ request.route = "/api/search") =>
        IF NoQuery THEN NoQueryRejected
        ELSE IF ~MissingCredentials /\ SongCountParses THEN TrimmedQuerySent
        ELSE response.status = 500 /\ sent = <<>> /\ ~upstream.called

\* a padded two-word query goes upstream trimmed, its inner space kept
SearchQueryWitness ==
    /\ Done /\ request.route = "/api/search"
    /\ "query" \in DOMAIN request.args
    /\ request.args["query"] = <<" ", "a", " ", "b", " ">>
    /\ Len(sent) = 1
    /\ sent[1].params["query"] = <<"a", " ", "b">>
    /\ sent[1].params["albumCount"] = 0 /\ sent[1].params["artistCount"] = 0

-----------------------------------------------------------------------------
(* C7: with a well-formed envelope, the "song" value is normalized to a     *)
(* list: the answer is 200 with success: true and one summary per entry     *)
(* that is neither null nor empty, in upstream order, a single object       *)
(* counting as a list of one; an absent or null "song" gives an empty list. *)
SongsNormalized ==
    (Done /\ request.route \in QueryRoutes /\ WellFormed) =>
        /\ ListsSongs
        /\ Len(Listed) = Len(UpKept)
        /\ \A i \in 1..Len(UpKept) :
              /\ Listed[i].k = "obj" /\ "id" \in DOMAIN Listed[i].o
              /\ Listed[i].o["id"] = FieldOr(UpKept[i], "id", JNull)
        /\ UpSong.k = "null" => Listed = <<>>
        /\ (UpSong.k = "obj" /\ DOMAIN UpSong.o # {}) => Len(Listed) = 1

\* a single song object under randomSongs.song comes back as a list of one
SongsNormalizedWitness ==
    /\ Done /\ request.route = "/api/random/list" /\ WellFormed
    /\ UpSong = SongA
    /\ ListsSongs /\ Len(Listed) = 1
    /\ Listed[1].o["id"] = JStr("1")

-----------------------------------------------------------------------------
(* C8, as claimed: every song summary has exactly the fields id, title,     *)
(* artist, coverArt; title and artist are the upstream values when present  *)
(* and "Unknown" when absent, so never null; coverArt is the upstream       *)
(* coverArt when present and the song's id when absent or empty; on both    *)
(* endpoints.                                                               *)
SummaryShape(summary, song) ==
    /\ summary.k = "obj"
    /\ DOMAIN summary.o = {"id", "title", "artist", "coverArt"}
    /\ summary.o["id"] = FieldOr(song, "id", JNull)
    /\ summary.o["title"] = FieldOr(song, "title", JStr("Unknown"))
    /\ summary.o["artist"] = FieldOr(song, "artist", JStr("Unknown"))
    /\ summary.o["coverArt"] =
          IF FieldOr(song, "coverArt", JNull) \in {JNull, JStr("")}
          THEN FieldOr(song, "id", JNull)
          ELSE song.o["coverArt"]

ProjectionAsClaimed ==
    (Done /\ request.route \in QueryRoutes /\ WellFormed /\ ListsSongs
          /\ Len(Listed) = Len(UpKept)) =>
        \A i \in 1..Len(Listed) :
            /\ SummaryShape(Listed[i], UpKept[i])
            /\ Listed[i].o["title"] # JNull
            /\ Listed[i].o["artist"] # JNull

(* C8, amended: every song summary has exactly the fields id, title,        *)
(* artist, coverArt; title and artist are the upstream values when the key  *)
(* is present (an explicit null stays null) and "Unknown" when the key is   *)
(* absent; coverArt is the upstream coverArt when present and the song's id *)
(* (null without one) when absent, null or empty; on both endpoints.        *)
Projection ==
    (Done /\ request.route \in QueryRoutes /\ WellFormed /\ ListsSongs
          /\ Len(Listed) = Len(UpKept)) =>
        \A i \in 1..Len(Listed) :
            /\ SummaryShape(Listed[i], UpKept[i])
            /\ "title" \notin DOMAIN UpKept[i].o => Listed[i].o["title"] = JStr("Unknown")
            /\ "artist" \notin DOMAIN UpKept[i].o => Listed[i].o["artist"] = JStr("Unknown")
            /\ Listed[i].o["title"] = JNull =>
                  "title" \in DOMAIN UpKept[i].o /\ UpKept[i].o["title"] = JNull
            /\ Listed[i].o["artist"] = JNull =>
                  "artist" \in DOMAIN UpKept[i].o /\ UpKept[i].o["artist"] = JNull

\* a search hit with only an id comes back with both defaults and the id as cover
ProjectionWitness ==
    /\ Done /\ request.route = "/api/search" /\ WellFormed
    /\ UpSong = JObj([id |-> JStr("1")])
    /\ ListsSongs /\ Len(Listed) = 1
    /\ Listed[1] = JObj([id |-> JStr("1"), title |-> JStr("Unknown"),
                         artist |-> JStr("Unknown"), coverArt |-> JStr("1")])

-----------------------------------------------------------------------------
(* C9, as claimed: a request handled by cover, stream, random list or       *)
(* search triggers exactly one upstream request, a request handled by the   *)
(* static or ping handlers none, and never more than one.  (Stated for a    *)
(* process whose credentials are set, see C3.)                              *)
OneUpstreamAsClaimed ==
    (Done /\ ~MissingCredentials) =>
        /\ request.route \in AuthRoutes => Len(sent) = 1
        /\ request.route \in StaticRoutes => Len(sent) = 0

(* C9, amended: no handler issues more than one upstream request, whatever  *)
(* the upstream answers; the static and ping handlers issue none; cover,    *)
(* stream, random list and search issue exactly one unless they return      *)
(* before the call (credentials missing: 500; search with a missing or      *)
(* blank query: 400; search with a songCount that is no integer: 500), and  *)
(* then none.                                                               *)
ReturnsBeforeCall ==
    \/ MissingCredentials
    \/ request.route = "/api/search" /\ (NoQuery \/ ~SongCountParses)

OneUpstream ==
    /\ Len(sent) <= 1
    /\ Done =>
          /\ request.route \in StaticRoutes => sent = <<>> /\ ~upstream.called
          /\ request.route \in AuthRoutes =>
                IF ReturnsBeforeCall
                THEN sent = <<>> /\ ~upstream.called /\ response.status \in {400, 500}
                ELSE Len(sent) = 1 /\ upstream.called

\* an upstream that answers 500 to getRandomSongs is not asked again
OneUpstreamWitness ==
    /\ Done /\ request.route = "/api/random/list"
    /\ UpstreamReturned(500)
    /\ Len(sent) = 1

-----------------------------------------------------------------------------
AuthKeys == {"u", "t", "s", "v", "c", "f"}

BuiltFromConfig(a) ==
    /\ DOMAIN a = AuthKeys
    /\ a.t = "md5(" \o SUBSONIC_PASSWORD \o a.s \o ")"
    /\ a.u = SUBSONIC_USER /\ a.u # "" /\ SUBSONIC_PASSWORD # ""
    /\ a.v = "1.16.1" /\ a.c = "homarr-webplayer" /\ a.f = "json"

FreshAuthStep ==
    /\ \A i \in 1..Len(auths') : BuiltFromConfig(auths'[i])
    /\ \A i, j \in 1..Len(auths') :
          auths'[i].s # auths'[j].s => auths'[i].t # auths'[j].t
    /\ (pc = "idle" /\ sent' # <<>>) =>
          /\ Len(auths') = Len(auths) + 1
          /\ \A x \in AuthKeys : sent'[1].params[x] = auths'[Len(auths')][x]

====
